---------------------------- MODULE Spec2Model ----------------------------
(***************************************************************************)
(* A model of parser_spec.py: the ToC strategies, the page-range resolver, *)
(* the table inventories, the validation report and the orchestrator.      *)
(*                                                                         *)
(* Strings are sequences of one-character strings, so that strip, lower,   *)
(* rsplit, count and the lexicographic order of sorted() are computed.     *)
(* Optional[T] is a sequence of length 0 (None) or 1 (a value).            *)
(* A regular-expression scan of a page's text is represented by its list   *)
(* of matches on that page.                                                *)
(***************************************************************************)
EXTENDS Integers, Sequences, FiniteSets, TLC

VARIABLES
    pc,             \* position of the call / of USBPDParser.run
    pdf,            \* the open document: page_count, pages, toc
    hint,           \* RegexTOCStrategy.toc_pages_hint
    toc_sections,   \* the Section list of the ToC (the resolver's argument)
    spec_sections,  \* the Section list the resolver returns
    ranges,         \* SpecParser.extract_sections_text: the list `ranges`
    pages_read,     \* the page lists handed to pdf.get_text, one per section
    toc_pages,      \* the pages RegexTOCStrategy.read scans
    strategy,       \* the strategy whose result TOCReader.read returned
    files,          \* the output files written so far, in order
    toc_tables,     \* TableParser.list_from_list_of_tables
    body_tables,    \* TableParser.count_in_body
    report,         \* the report ReportGenerator.generate wrote
    error           \* the exception that ended the call, "" when none

vars == <<pc, pdf, hint, toc_sections, spec_sections, ranges, pages_read,
          toc_pages, strategy, files, toc_tables, body_tables, report, error>>

-----------------------------------------------------------------------------
(* Bounds of the model *)

MaxPages == 2
MaxSections == 3
MaxOutline == 2
MaxLines == 2
MaxScanPages == 42

-----------------------------------------------------------------------------
(* Python values *)

None == <<>>
Some(x) == <<x>>

Min(a, b) == IF a < b THEN a ELSE b
Max(a, b) == IF a > b THEN a ELSE b

\* range(a, b)
Range(a, b) == [i \in 1..Max(b - a, 0) |-> a + i - 1]

RECURSIVE Concat(_)
Concat(ss) == IF ss = <<>> THEN <<>> ELSE Head(ss) \o Concat(Tail(ss))

SeqToSet(s) == {s[i] : i \in 1..Len(s)}

\* The sequences over S of length at most n.
SeqsUpTo(S, n) == UNION {[1..k -> S] : k \in 0..n}

\* The subsets of S with at most two elements.
UpToTwoOf(S) == {{}} \cup {{x, y} : x, y \in S}

-----------------------------------------------------------------------------
(* Characters and strings *)

Digits == <<"0", "1", "2", "3", "4", "5", "6", "7", "8", "9">>
IsDigit(c) == c \in SeqToSet(Digits)
IsSpace(c) == c \in {" ", "\n", "\t"}

\* ord(c) for the characters the model uses
Ord(c) ==
    CASE c = "\t" -> 9  [] c = "\n" -> 10 [] c = " " -> 32
      [] c = "-" -> 45  [] c = "." -> 46
      [] c = "0" -> 48  [] c = "1" -> 49  [] c = "2" -> 50  [] c = "3" -> 51
      [] c = "4" -> 52  [] c = "5" -> 53  [] c = "6" -> 54  [] c = "7" -> 55
      [] c = "8" -> 56  [] c = "9" -> 57
      [] c = "A" -> 65  [] c = "B" -> 66  [] c = "E" -> 69  [] c = "L" -> 76
      [] c = "T" -> 84
      [] c = "a" -> 97  [] c = "b" -> 98  [] c = "e" -> 101 [] c = "l" -> 108
      [] c = "t" -> 116 [] c = "x" -> 120

\* str.lower, character by character
LowerChar(c) ==
    CASE c = "A" -> "a" [] c = "B" -> "b" [] c = "E" -> "e" [] c = "L" -> "l"
      [] c = "T" -> "t" [] OTHER -> c
Lower(s) == [i \in 1..Len(s) |-> LowerChar(s[i])]

\* s < t in Python's order of strings (by code point, a prefix first)
RECURSIVE StrLess(_, _)
StrLess(s, t) ==
    IF t = <<>> THEN FALSE
    ELSE IF s = <<>> THEN TRUE
    ELSE IF Head(s) = Head(t) THEN StrLess(Tail(s), Tail(t))
    ELSE Ord(Head(s)) < Ord(Head(t))

\* str.strip
RECURSIVE LStrip(_)
LStrip(s) == IF s # <<>> /\ IsSpace(Head(s)) THEN LStrip(Tail(s)) ELSE s
RECURSIVE RStrip(_)
RStrip(s) ==
    IF s # <<>> /\ IsSpace(s[Len(s)]) THEN RStrip(SubSeq(s, 1, Len(s) - 1)) ELSE s
Strip(s) == LStrip(RStrip(s))

\* s.count(".")
CountDots(s) == Cardinality({i \in 1..Len(s) : s[i] = "."})

\* "." in s
HasDot(s) == \E i \in 1..Len(s) : s[i] = "."

\* s.split(".", 1)[0] in the place of rsplit: s up to its first "."
SplitHead(s) ==
    LET first == CHOOSE i \in 1..Len(s) :
                     s[i] = "." /\ \A j \in 1..(i - 1) : s[j] # "."
    IN SubSeq(s, 1, first - 1)

\* s.rsplit(".", 1)[0], for s with a "." in it: s up to its last "."
RSplitHead(s) ==
    LET last == CHOOSE i \in 1..Len(s) :
                    s[i] = "." /\ \A j \in (i + 1)..Len(s) : s[j] # "."
    IN SubSeq(s, 1, last - 1)

\* str(n) for n >= 0
RECURSIVE Str(_)
Str(n) == IF n < 10 THEN <<Digits[n + 1]>> ELSE Str(n \div 10) \o <<Digits[(n % 10) + 1]>>

\* f"{n:03d}" for n >= 0
Pad3(n) ==
    LET d == Str(n)
    IN [i \in 1..Max(3 - Len(d), 0) |-> "0"] \o d

\* sorted(S) for a set S of strings
RECURSIVE SortedStrings(_)
SortedStrings(S) ==
    IF S = {} THEN <<>>
    ELSE LET m == CHOOSE x \in S : \A y \in S : y = x \/ StrLess(x, y)
         IN <<m>> \o SortedStrings(S \ {m})

-----------------------------------------------------------------------------
(* Data model *)

DocTitle == <<"x">>

\* Section(...), text defaulting to None
Section(sec_id, title, page, level, parent, path) ==
    [doc_title |-> DocTitle, section_id |-> sec_id, title |-> title,
     page_start_1idx |-> page, level |-> level, parent_id |-> parent,
     full_path |-> path, tags |-> <<>>, text |-> None]

-----------------------------------------------------------------------------
(* PDFLoader *)

\* A page of the document: its words (the text between two separators),
\* the ToC lines RegexTOCStrategy.pattern matches on it, and whether the
\* two heading searches succeed on it.
Page(words, lines, contents, lot) ==
    [words |-> words, lines |-> lines, contents |-> contents, lot |-> lot]

\* self.doc[p], p >= 0: the page, or IndexError for p >= page_count
PageInDoc(doc, p) == p < doc.page_count
LoadPage(doc, p) == doc.pages[p + 1]

\* [self.doc[p] for p in pages_0idx]: None stands for the IndexError.
ReadPages(doc, pages_0idx) ==
    IF \A i \in 1..Len(pages_0idx) : PageInDoc(doc, pages_0idx[i])
    THEN Some([i \in 1..Len(pages_0idx) |-> LoadPage(doc, pages_0idx[i])])
    ELSE None

\* PDFLoader.get_text(pages_0idx): the texts of the pages, joined
GetText(doc, pages_0idx) ==
    LET ps == ReadPages(doc, pages_0idx)
    IN IF ps = None THEN None
       ELSE Some(Concat([i \in 1..Len(ps[1]) |-> ps[1][i].words]))

\* PDFLoader.page_text(page_0idx)
PageText(doc, page_0idx) == LoadPage(doc, page_0idx)

\* str.strip on a text given as words: blank words at either end go
RECURSIVE LStripWords(_)
LStripWords(ws) ==
    IF ws # <<>> /\ Strip(Head(ws)) = <<>> THEN LStripWords(Tail(ws)) ELSE ws
RECURSIVE RStripWords(_)
RStripWords(ws) ==
    IF ws # <<>> /\ Strip(ws[Len(ws)]) = <<>>
    THEN RStripWords(SubSeq(ws, 1, Len(ws) - 1)) ELSE ws
StripWords(ws) == LStripWords(RStripWords(ws))

-----------------------------------------------------------------------------
(* BookmarkTOCStrategy *)

\* \d+(?:\.\d+)* matches the whole of s
IsDottedId(s) ==
    /\ s # <<>>
    /\ \A i \in 1..Len(s) : IsDigit(s[i]) \/ s[i] = "."
    /\ IsDigit(s[1]) /\ IsDigit(s[Len(s)])
    /\ \A i \in 1..(Len(s) - 1) : ~(s[i] = "." /\ s[i + 1] = ".")

\* _secid_from_title.match(title), title stripped: the id is the text before
\* the first white space, the title what follows the white space; `.` does
\* not match a line break.  None when the pattern does not match.
SecIdFromTitle(title) ==
    LET sp == {i \in 1..Len(title) : IsSpace(title[i])}
    IN IF sp = {} THEN None
       ELSE LET k == CHOOSE i \in sp : \A j \in sp : i <= j
                id == SubSeq(title, 1, k - 1)
                rest == LStrip(SubSeq(title, k, Len(title)))
            IN IF IsDottedId(id) /\ rest # <<>>
                  /\ \A i \in 1..Len(rest) : rest[i] # "\n"
               THEN Some([id |-> id, title |-> rest])
               ELSE None

\* lines 82-102: the Section of one (level, title, page) entry
BookmarkSection(entry) ==
    LET title == Strip(entry.title)
        m == SecIdFromTitle(title)
        sec_id == IF m # None THEN m[1].id ELSE <<>>
        sec_title == IF m # None THEN Strip(m[1].title) ELSE title
    IN Section(sec_id, sec_title, entry.page, entry.level,
               IF sec_id # <<>> /\ HasDot(sec_id) THEN Some(RSplitHead(sec_id)) ELSE None,
               Strip(sec_id \o <<" ">> \o sec_title))

\* line 110: f"L{s.level}-{counters[s.level]:03d}"
SyntheticId(level, n) == <<"L">> \o Str(level) \o <<"-">> \o Pad3(n)

\* lines 105-111: fill missing ids, one counter per level
FillMissingIds(sections) ==
    [i \in 1..Len(sections) |->
        IF sections[i].section_id # <<>> THEN sections[i]
        ELSE LET n == Cardinality({j \in 1..i :
                          /\ sections[j].section_id = <<>>
                          /\ sections[j].level = sections[i].level})
             IN [sections[i] EXCEPT
                    !.section_id = SyntheticId(sections[i].level, n),
                    !.parent_id = None]]

\* BookmarkTOCStrategy.read
BookmarkRead(doc) ==
    IF doc.toc = <<>> THEN <<>>
    ELSE FillMissingIds([i \in 1..Len(doc.toc) |-> BookmarkSection(doc.toc[i])])

-----------------------------------------------------------------------------
(* RegexTOCStrategy *)

ScanFirstN == 40
DefaultTocPages == 10
PagesBeforeHit == 1
PagesAfterHit == 8

\* _guess_toc_pages without the max(..., 0) of line 133
GuessTocPagesUnclamped(doc) ==
    LET hits == {i \in 0..(Min(ScanFirstN, doc.page_count) - 1) :
                    PageText(doc, i).contents}
    IN IF hits = {} THEN Range(0, Min(DefaultTocPages, doc.page_count))
       ELSE LET first == CHOOSE i \in hits : \A j \in hits : i <= j
                start == first - PagesBeforeHit
                end == Min(first + PagesAfterHit, doc.page_count - 1)
            IN Range(start, end + 1)

\* RegexTOCStrategy._guess_toc_pages
GuessTocPages(doc) ==
    LET hits == {i \in 0..(Min(ScanFirstN, doc.page_count) - 1) :
                    PageText(doc, i).contents}
    IN IF hits = {} THEN Range(0, Min(DefaultTocPages, doc.page_count))
       ELSE LET first == CHOOSE i \in hits : \A j \in hits : i <= j
                start == Max(first - PagesBeforeHit, 0)
                end == Min(first + PagesAfterHit, doc.page_count - 1)
            IN Range(start, end + 1)

\* line 138: self.toc_pages_hint if self.toc_pages_hint else
\* self._guess_toc_pages(pdf); None and [] are both false
SelectTocPages(doc, h) ==
    IF h # None /\ h[1] # <<>> THEN h[1] ELSE GuessTocPages(doc)

\* lines 143-157: the Section of one match of self.pattern
RegexSection(m) ==
    LET sec_id == Strip(m.id)
        title == Strip(m.title)
    IN Section(sec_id, title, m.page, CountDots(sec_id) + 1,
               IF HasDot(sec_id) THEN Some(RSplitHead(sec_id)) ELSE None,
               sec_id \o <<" ">> \o title)

\* RegexTOCStrategy.read: None stands for the IndexError of pdf.get_text
RegexRead(doc, h) ==
    LET ps == ReadPages(doc, SelectTocPages(doc, h))
    IN IF ps = None THEN None
       ELSE LET ms == Concat([i \in 1..Len(ps[1]) |-> ps[1][i].lines])
            IN Some([i \in 1..Len(ms) |-> RegexSection(ms[i])])

-----------------------------------------------------------------------------
(* TOCReader *)

\* TOCReader.read with the two strategies in the other order
TOCReaderReadRegexFirst(doc, h) ==
    LET r == RegexRead(doc, h)
    IN IF r = None
       THEN [sections |-> <<>>, strategy |-> "none", raised |-> TRUE,
             pages |-> SelectTocPages(doc, h)]
       ELSE IF r[1] # <<>>
       THEN [sections |-> r[1], strategy |-> "regex", raised |-> FALSE,
             pages |-> SelectTocPages(doc, h)]
       ELSE [sections |-> BookmarkRead(doc),
             strategy |-> IF BookmarkRead(doc) # <<>> THEN "bookmark" ELSE "none",
             raised |-> FALSE, pages |-> SelectTocPages(doc, h)]

\* TOCReader.read: the first strategy with a non-empty result wins
TOCReaderRead(doc, h) ==
    LET b == BookmarkRead(doc)
    IN IF b # <<>>
       THEN [sections |-> b, strategy |-> "bookmark", raised |-> FALSE,
             pages |-> <<>>]
       ELSE LET r == RegexRead(doc, h)
            IN IF r = None
               THEN [sections |-> <<>>, strategy |-> "none", raised |-> TRUE,
                     pages |-> SelectTocPages(doc, h)]
               ELSE [sections |-> r[1],
                     strategy |-> IF r[1] # <<>> THEN "regex" ELSE "none",
                     raised |-> FALSE, pages |-> SelectTocPages(doc, h)]

-----------------------------------------------------------------------------
(* SpecParser *)

\* sorted(sections, key=lambda s: s.page_start_1idx), as the list of the
\* positions of `sections` in their sorted order.  The sort is stable: a
\* section goes behind every section whose page is not greater.
RECURSIVE InsertByPageBeforeEqual(_, _, _)
InsertByPageBeforeEqual(sections, order, k) ==
    IF order = <<>> THEN <<k>>
    ELSE IF sections[k].page_start_1idx <= sections[Head(order)].page_start_1idx
         THEN <<k>> \o order
         ELSE <<Head(order)>> \o InsertByPageBeforeEqual(sections, Tail(order), k)
RECURSIVE InsertByPage(_, _, _)
InsertByPage(sections, order, k) ==
    IF order = <<>> THEN <<k>>
    ELSE IF sections[k].page_start_1idx < sections[Head(order)].page_start_1idx
         THEN <<k>> \o order
         ELSE <<Head(order)>> \o InsertByPage(sections, Tail(order), k)
RECURSIVE SortOrder(_, _)
SortOrder(sections, n) ==
    IF n = 0 THEN <<>>
    ELSE InsertByPage(sections, SortOrder(sections, n - 1), n)

\* lines 192-195: the (start, end) pair of section i of the sorted list
SectionRange(sections_sorted, i, last_page) ==
    LET start == sections_sorted[i].page_start_1idx
        end == IF i + 1 <= Len(sections_sorted)
               THEN sections_sorted[i + 1].page_start_1idx - 1
               ELSE last_page
    IN <<start, Max(start, end)>>

ComputeRanges(sections_sorted, last_page) ==
    [i \in 1..Len(sections_sorted) |-> SectionRange(sections_sorted, i, last_page)]

\* line 198: pages_0idx = list(range(start - 1, end))
PagesOfRange(r) == Range(r[1] - 1, r[2])

\* SpecParser.extract_sections_text(pdf, sections).  The loop of lines
\* 197-199 stops at the first section whose pages raise IndexError: `done`
\* counts the sections whose text was written before that.  The sections
\* are objects shared with the argument list, so `argument` is that list
\* after the call.
ExtractSectionsText(doc, sections) ==
    LET order == SortOrder(sections, Len(sections))
        sections_sorted == [i \in 1..Len(order) |-> sections[order[i]]]
        rs == ComputeRanges(sections_sorted, doc.page_count)
        texts == [i \in 1..Len(rs) |-> GetText(doc, PagesOfRange(rs[i]))]
        bad == {i \in 1..Len(rs) : texts[i] = None}
        done == IF bad = {} THEN Len(rs)
                ELSE (CHOOSE i \in bad : \A j \in bad : i <= j) - 1
        written == [i \in 1..Len(rs) |->
                      IF i <= done
                      THEN [sections_sorted[i] EXCEPT
                               !.text = Some(StripWords(texts[i][1]))]
                      ELSE sections_sorted[i]]
    IN [ranges |-> rs,
        pages |-> [i \in 1..Min(done + 1, Len(rs)) |-> PagesOfRange(rs[i])],
        raised |-> bad # {},
        sections |-> written,
        argument |-> [k \in 1..Len(sections) |->
                        written[CHOOSE i \in 1..Len(order) : order[i] = k]]]

-----------------------------------------------------------------------------
(* TableParser *)

LotScanPages == 50
LotWindow == 6

IsAlpha(c) == c \in {"A", "B", "E", "L", "T", "a", "b", "e", "l", "t", "x"}

\* The first position from i on of s that holds no digit (no white space,
\* no letter, digit or hyphen), Len(s) + 1 when there is none.
RECURSIVE SpanDigits(_, _)
SpanDigits(s, i) == IF i <= Len(s) /\ IsDigit(s[i]) THEN SpanDigits(s, i + 1) ELSE i
RECURSIVE SpanSpaces(_, _)
SpanSpaces(s, i) == IF i <= Len(s) /\ IsSpace(s[i]) THEN SpanSpaces(s, i + 1) ELSE i
RECURSIVE SpanTail(_, _)
SpanTail(s, i) ==
    IF i <= Len(s) /\ (IsAlpha(s[i]) \/ IsDigit(s[i]) \/ s[i] = "-")
    THEN SpanTail(s, i + 1) ELSE i

\* Table\s+[A-Z]?\d+(?:-\d+)? matched, ignoring case, at the start of the
\* word w: the position after the match, 0 when there is no match.
TableRefEnd(w) ==
    IF Len(w) < 5 \/ Lower(SubSeq(w, 1, 5)) # <<"t", "a", "b", "l", "e">> THEN 0
    ELSE LET a == SpanSpaces(w, 6)
             b == IF a <= Len(w) /\ IsAlpha(w[a]) THEN a + 1 ELSE a
             c == SpanDigits(w, b)
             d == IF c <= Len(w) /\ w[c] = "-" /\ SpanDigits(w, c + 1) > c + 1
                  THEN SpanDigits(w, c + 1) ELSE c
         IN IF a = 6 \/ c = b THEN 0 ELSE d

\* line 224: re.findall(r"(Table\s+[A-Z]?\d+(?:-\d+)?)", text, flags=re.I)
DeclaredMatches(words) ==
    LET hit == SelectSeq(words, LAMBDA w : TableRefEnd(w) > 0)
    IN [i \in 1..Len(hit) |-> SubSeq(hit[i], 1, TableRefEnd(hit[i]) - 1)]

\* BODY_TABLE_RE.finditer(text): the same pattern followed by
\* [A-Za-z0-9\-]*
BodyMatches(words) ==
    LET hit == SelectSeq(words, LAMBDA w : TableRefEnd(w) > 0)
    IN [i \in 1..Len(hit) |-> SubSeq(hit[i], 1, SpanTail(hit[i], TableRefEnd(hit[i])) - 1)]

\* sorted(S, key=str.lower) for a set S of strings: the sort is stable and
\* a set is iterated in the order of the hashes of its strings, which
\* changes from one process to the next, so strings of equal key may come
\* out in either order.  The set of the lists it may return.
SortedByLower(S) ==
    {q \in [1..Cardinality(S) -> S] :
        /\ \A i, j \in 1..Cardinality(S) : i # j => q[i] # q[j]
        /\ \A i \in 1..(Cardinality(S) - 1) : ~StrLess(Lower(q[i + 1]), Lower(q[i]))}

\* lines 215-219: the pages of the "List of Tables"
ListOfTablesPages(doc) ==
    LET hits == {i \in 0..(Min(LotScanPages, doc.page_count) - 1) : PageText(doc, i).lot}
    IN IF hits = {} THEN <<>>
       ELSE LET first == CHOOSE i \in hits : \A j \in hits : i <= j
            IN Range(first, Min(first + LotWindow, doc.page_count))

\* TableParser.list_from_list_of_tables: the lists it may return
ListFromListOfTables(doc) ==
    LET pages == ListOfTablesPages(doc)
    IN IF pages = <<>> THEN {<<>>}
       ELSE LET items == DeclaredMatches(GetText(doc, pages)[1])
            IN SortedByLower({Strip(items[i]) : i \in 1..Len(items)})

\* TableParser.count_in_body: the lists it may return
CountInBody(sections) ==
    LET withText == {i \in 1..Len(sections) :
                        sections[i].text # None /\ sections[i].text[1] # <<>>}
        found == UNION {LET ms == BodyMatches(sections[i].text[1])
                        IN {Strip(ms[k]) : k \in 1..Len(ms)} : i \in withText}
    IN SortedByLower(found)

-----------------------------------------------------------------------------
(* ReportGenerator *)

\* {s.section_id for s in sections}
IdsOf(sections) == {sections[i].section_id : i \in 1..Len(sections)}

\* generate comparing the two lists of ids in the place of the two sets
GenerateComparingLists(toc, spec, tocTables, bodyTables) ==
    LET toc_ids == IdsOf(toc)
        spec_ids == IdsOf(spec)
        summary == [toc_total |-> Len(toc), spec_total |-> Len(spec),
                    sections_match |->
                        IF [i \in 1..Len(toc) |-> toc[i].section_id]
                             = [i \in 1..Len(spec) |-> spec[i].section_id]
                        THEN "Yes" ELSE "No",
                    toc_tables |-> Len(tocTables),
                    body_tables |-> Len(bodyTables)]
        in_toc == SortedStrings(toc_ids \ spec_ids)
        parsed == SortedStrings(spec_ids \ toc_ids)
    IN IF Len(in_toc) # Len(parsed) THEN None
       ELSE Some([summary |-> summary, in_toc_not_parsed |-> in_toc,
                  parsed_not_in_toc |-> parsed])

\* ReportGenerator.generate: the report written, None standing for the
\* ValueError pandas raises for a DataFrame of two columns of different
\* lengths (lines 268-271).
Generate(toc, spec, tocTables, bodyTables) ==
    LET toc_ids == IdsOf(toc)
        spec_ids == IdsOf(spec)
        summary == [toc_total |-> Len(toc), spec_total |-> Len(spec),
                    sections_match |-> IF IdsOf(toc) = IdsOf(spec) THEN "Yes" ELSE "No",
                    toc_tables |-> Len(tocTables),
                    body_tables |-> Len(bodyTables)]
        in_toc == SortedStrings(toc_ids \ spec_ids)
        parsed == SortedStrings(spec_ids \ toc_ids)
    IN IF Len(in_toc) # Len(parsed) THEN None
       ELSE Some([summary |-> summary, in_toc_not_parsed |-> in_toc,
                  parsed_not_in_toc |-> parsed])

-----------------------------------------------------------------------------
(* Documents and section lists *)

\* The text of page p (0-indexed) of a plain document: the page's number
\* between white space.
PlainPage(p) == Page(<<<<" ">>, Str(p), <<"\n">>>>, <<>>, FALSE, FALSE)

PlainDoc(n) == [page_count |-> n, pages |-> [i \in 1..n |-> PlainPage(i - 1)],
                toc |-> <<>>]

IdPool == {<<"1">>, <<"1", ".", "1">>}

\* The page numbers a ToC may declare: any 1-indexed number, also one
\* beyond the document's last page.
PageStarts == 1..(MaxPages + 1)

TocLine(id, page) == [id |-> id, title |-> <<"a">>, page |-> page]

SectionPool == {RegexSection(TocLine(id, p)) : id \in IdPool, p \in PageStarts}

-----------------------------------------------------------------------------
(* Steps shared by the specifications *)

\* Nothing has been computed or written yet.
Fresh ==
    /\ ranges = <<>>
    /\ pages_read = <<>>
    /\ toc_pages = <<>>
    /\ strategy = "none"
    /\ files = <<>>
    /\ toc_tables = <<>>
    /\ body_tables = <<>>
    /\ report = None
    /\ error = ""

\* sections = self.toc_reader.read(self.pdf)
ReadStep(from, to, empty) ==
    /\ pc = from
    /\ LET r == TOCReaderRead(pdf, hint)
       IN /\ toc_sections' = r.sections
          /\ strategy' = r.strategy
          /\ toc_pages' = r.pages
          /\ error' = IF r.raised THEN "IndexError" ELSE ""
          /\ pc' = IF r.raised THEN "raised"
                   ELSE IF r.sections = <<>> THEN empty ELSE to
    /\ UNCHANGED <<pdf, hint, spec_sections, ranges, pages_read, files,
                   toc_tables, body_tables, report>>

\* spec_sections = extract_sections_text(pdf, toc_sections)
ResolveStep(from, to) ==
    /\ pc = from
    /\ LET r == ExtractSectionsText(pdf, toc_sections)
       IN /\ ranges' = r.ranges
          /\ pages_read' = r.pages
          /\ toc_sections' = r.argument
          /\ spec_sections' = IF r.raised THEN <<>> ELSE r.sections
          /\ pc' = IF r.raised THEN "raised" ELSE to
          /\ error' = IF r.raised THEN "IndexError" ELSE ""
    /\ UNCHANGED <<pdf, hint, toc_pages, strategy, files, toc_tables,
                   body_tables, report>>

\* toc_tables = list_from_list_of_tables(pdf)
DeclaredStep(from, to) ==
    /\ pc = from
    /\ toc_tables' \in ListFromListOfTables(pdf)
    /\ pc' = to
    /\ UNCHANGED <<pdf, hint, toc_sections, spec_sections, ranges, pages_read,
                   toc_pages, strategy, files, body_tables, report, error>>

\* body_tables = count_in_body(spec_sections)
ObservedStep(from, to) ==
    /\ pc = from
    /\ body_tables' \in CountInBody(spec_sections)
    /\ pc' = to
    /\ UNCHANGED <<pdf, hint, toc_sections, spec_sections, ranges, pages_read,
                   toc_pages, strategy, files, toc_tables, report, error>>

\* self.reporter.generate(toc_sections, spec_sections, toc_tables, body_tables)
GenerateStep(from, to) ==
    /\ pc = from
    /\ LET r == Generate(toc_sections, spec_sections, toc_tables, body_tables)
       IN /\ report' = r
          /\ pc' = IF r = None THEN "raised" ELSE to
          /\ error' = IF r = None THEN "ValueError" ELSE ""
    /\ UNCHANGED <<pdf, hint, toc_sections, spec_sections, ranges, pages_read,
                   toc_pages, strategy, files, toc_tables, body_tables>>

\* JSONLWriter.write(filename, items)
WriteStep(from, to, filename, items) ==
    /\ pc = from
    /\ files' = Append(files, [name |-> filename, items |-> items])
    /\ pc' = to
    /\ UNCHANGED <<pdf, hint, toc_sections, spec_sections, ranges, pages_read,
                   toc_pages, strategy, toc_tables, body_tables, report, error>>

-----------------------------------------------------------------------------
(* SpecResolve: SpecParser.extract_sections_text on any section list *)

InitResolve ==
    /\ pc = "call"
    /\ pdf \in {PlainDoc(n) : n \in 1..MaxPages}
    /\ toc_sections \in SeqsUpTo(SectionPool, MaxSections)
    /\ hint = None
    /\ spec_sections = <<>>
    /\ Fresh

Resolve == ResolveStep("call", "returned")

NextResolve == Resolve

SpecResolve == InitResolve /\ [][NextResolve]_vars

-----------------------------------------------------------------------------
(* SpecToc: TOCReader.read on any outline and any ToC page text *)

Levels == 1..2

\* Bookmark titles: "1 a", "1.1 a", "1.1.2 a", "a" (no id), " 1.1  a "
TitlePool ==
    {<<"1", " ", "a">>,
     <<"1", ".", "1", " ", "a">>,
     <<"1", ".", "1", ".", "2", " ", "a">>,
     <<"a">>,
     <<" ", "1", ".", "1", " ", " ", "a", " ">>}

TocIdPool == {<<"1">>, <<"1", ".", "1">>, <<"1", ".", "1", ".", "2">>}

\* A document of one page with the outline toc and the ToC lines `lines`
TocDoc(toc, lines) ==
    [page_count |-> 1, pages |-> <<Page(<<>>, lines, TRUE, FALSE)>>, toc |-> toc]

InitToc ==
    /\ pc = "call"
    /\ pdf \in {TocDoc(toc, lines) :
                  toc \in SeqsUpTo([level : Levels, title : TitlePool, page : {1}],
                                   MaxOutline),
                  lines \in SeqsUpTo({TocLine(id, 1) : id \in TocIdPool}, MaxLines)}
    /\ hint = None
    /\ toc_sections = <<>>
    /\ spec_sections = <<>>
    /\ Fresh

ReadToc == ReadStep("call", "returned", "returned")

NextToc == ReadToc

SpecToc == InitToc /\ [][NextToc]_vars

-----------------------------------------------------------------------------
(* SpecPages: the pages RegexTOCStrategy.read scans *)

\* A document of n pages with a "Contents" heading on the pages of hits
HeadingDoc(n, hits) ==
    [page_count |-> n,
     pages |-> [i \in 1..n |-> Page(<<>>, <<>>, (i - 1) \in hits, FALSE)],
     toc |-> <<>>]

InitPages ==
    /\ pc = "call"
    /\ pdf \in UNION {{HeadingDoc(n, hits) : hits \in UpToTwoOf(0..(n - 1))} :
                        n \in 1..MaxScanPages}
    /\ hint \in {None, Some(<<>>), Some(<<0>>)}
    /\ toc_sections = <<>>
    /\ spec_sections = <<>>
    /\ Fresh

\* self._guess_toc_pages(pdf)
GuessPages ==
    /\ pc = "call"
    /\ toc_pages' = GuessTocPages(pdf)
    /\ pc' = "guessed"
    /\ UNCHANGED <<pdf, hint, toc_sections, spec_sections, ranges, pages_read,
                   strategy, files, toc_tables, body_tables, report, error>>

\* line 138 of RegexTOCStrategy.read
SelectPages ==
    /\ pc = "call"
    /\ toc_pages' = SelectTocPages(pdf, hint)
    /\ pc' = "selected"
    /\ UNCHANGED <<pdf, hint, toc_sections, spec_sections, ranges, pages_read,
                   strategy, files, toc_tables, body_tables, report, error>>

NextPages == GuessPages \/ SelectPages

SpecPages == InitPages /\ [][NextPages]_vars

-----------------------------------------------------------------------------
(* SpecTables: the two table inventories *)

\* "Table 1", "TABLE 1", "Table 1-2", "Table 1x", "x"
WordPool ==
    {<<"T", "a", "b", "l", "e", " ", "1">>,
     <<"T", "A", "B", "L", "E", " ", "1">>,
     <<"T", "a", "b", "l", "e", " ", "1", "-", "2">>,
     <<"T", "a", "b", "l", "e", " ", "1", "x">>,
     <<"x">>}

TablePages == {Page(words, <<>>, FALSE, lot) :
                 words \in SeqsUpTo(WordPool, 1), lot \in BOOLEAN}

TableDocs ==
    UNION {{[page_count |-> n, pages |-> ps, toc |-> <<>>] : ps \in [1..n -> TablePages]} :
             n \in 1..MaxPages}

\* The resolved sections of a document whose ToC declares a section on
\* page 1, or one on each of the pages 1 and 2.
ResolvedOf(doc) ==
    {ExtractSectionsText(doc, [i \in 1..k |-> RegexSection(TocLine(<<"1">>, i))]).sections :
        k \in 1..Min(2, doc.page_count)}

InitTables ==
    /\ pc = "call"
    /\ pdf \in TableDocs
    /\ hint = None
    /\ toc_sections = <<>>
    /\ spec_sections \in ResolvedOf(pdf)
    /\ Fresh

Declared == DeclaredStep("call", "declared")
Observed == ObservedStep("call", "observed")

NextTables == Declared \/ Observed

SpecTables == InitTables /\ [][NextTables]_vars

-----------------------------------------------------------------------------
(* SpecReport: ReportGenerator.generate on any two section lists *)

ReportIdPool == {<<"1">>, <<"1", "0">>, <<"2">>}

ReportPool == {RegexSection(TocLine(id, 1)) : id \in ReportIdPool}

InitReport ==
    /\ pc = "call"
    /\ pdf = PlainDoc(1)
    /\ hint = None
    /\ toc_sections \in SeqsUpTo(ReportPool, MaxSections)
    /\ spec_sections \in SeqsUpTo(ReportPool, MaxSections)
    /\ Fresh

GenerateReport == GenerateStep("call", "returned")

NextReport == GenerateReport

SpecReport == InitReport /\ [][NextReport]_vars

-----------------------------------------------------------------------------
(* Spec: USBPDParser.run *)

Table1 == <<"T", "a", "b", "l", "e", " ", "1">>

\* Page p (0-indexed) of a document given to run: the ToC lines, the
\* "Contents" and the "List of Tables" headings are on page 0.
RunPage(p, lines) ==
    Page(<<<<" ">>, Table1, Str(p), <<"\n">>>>, IF p = 0 THEN lines ELSE <<>>,
         p = 0, p = 0)

RunDoc(n, toc, lines) ==
    [page_count |-> n, pages |-> [i \in 1..n |-> RunPage(i - 1, lines)], toc |-> toc]

RunTitles == {<<"1", " ", "a">>, <<"a">>}

RunPageCounts == 1..2

InitRun ==
    /\ pc = "start"
    /\ pdf \in {RunDoc(n, toc, lines) :
                  n \in RunPageCounts,
                  toc \in SeqsUpTo([level : {1}, title : RunTitles, page : 1..2],
                                   MaxOutline),
                  lines \in SeqsUpTo({TocLine(id, 1) : id \in IdPool}, MaxLines)}
    /\ hint \in {None, Some(<<0>>), Some(<<1>>)}
    /\ toc_sections = <<>>
    /\ spec_sections = <<>>
    /\ Fresh

\* lines 313-316
RunReadToc == ReadStep("start", "toc_read", "aborted")
\* line 318
RunWriteToc == WriteStep("toc_read", "toc_written", "usb_pd_toc.jsonl", toc_sections)
\* line 320
RunResolve == ResolveStep("toc_written", "resolved")
\* line 321
RunWriteSpec == WriteStep("resolved", "spec_written", "usb_pd_spec.jsonl", spec_sections)
\* lines 323-324
RunWriteMetadata ==
    WriteStep("spec_written", "metadata_written", "usb_pd_metadata.jsonl",
              <<[doc_title |-> DocTitle, pages |-> pdf.page_count]>>)
\* line 326
RunDeclared == DeclaredStep("metadata_written", "declared")
\* line 327
RunObserved == ObservedStep("declared", "observed")
\* line 329
RunGenerate == GenerateStep("observed", "done")

Next ==
    \/ RunReadToc
    \/ RunWriteToc
    \/ RunResolve
    \/ RunWriteSpec
    \/ RunWriteMetadata
    \/ RunDeclared
    \/ RunObserved
    \/ RunGenerate

Init == InitRun

Spec == Init /\ [][Next]_vars

-----------------------------------------------------------------------------
(* Properties of SpecParser.extract_sections_text *)

PageStartsOf(sections) == [i \in 1..Len(sections) |-> sections[i].page_start_1idx]

\* The i-th smallest of the page starts st, counted with repetitions.
NthStart(st, i) ==
    CHOOSE v \in SeqToSet(st) :
        /\ Cardinality({k \in 1..Len(st) : st[k] < v}) < i
        /\ i <= Cardinality({k \in 1..Len(st) : st[k] <= v})

MinStart(st) == CHOOSE v \in SeqToSet(st) : \A w \in SeqToSet(st) : v <= w

PagesIn(r) == r[1]..r[2]

WithoutText(sections) == [i \in 1..Len(sections) |-> [sections[i] EXCEPT !.text = None]]

\* C1 (as claimed): after extract_sections_text returns for a non-empty
\* section list, the page ranges, in page_start order, have the union
\* [min(page_start), total_pages], no two of them overlap and none is
\* empty, whatever the list, lists with equal page starts included.
C1_Partition ==
    (pc = "returned" /\ toc_sections # <<>>) =>
        /\ UNION {PagesIn(ranges[i]) : i \in 1..Len(ranges)}
              = MinStart(PageStartsOf(toc_sections))..pdf.page_count
        /\ \A i, j \in 1..Len(ranges) :
              i # j => PagesIn(ranges[i]) \cap PagesIn(ranges[j]) = {}
        /\ \A i \in 1..Len(ranges) : PagesIn(ranges[i]) # {}

\* C2 (as claimed): with the sections in page_start order, a non-last
\* section i has the range [start(i), start(i+1) - 1], clamped to
\* [start(i), start(i)] when start(i+1) - 1 < start(i); the last range ends
\* at the final page of the document (so a single section runs to the end
\* of the document); the pages read for a section are exactly the pages of
\* its range, and each is a page of the document.
C2_RangeFormula ==
    (pc \in {"returned", "raised"} /\ toc_sections # <<>>) =>
        LET st == PageStartsOf(toc_sections)
            n == Len(st)
        IN /\ Len(ranges) = n
           /\ \A i \in 1..(n - 1) :
                 ranges[i] = <<NthStart(st, i),
                               IF NthStart(st, i + 1) - 1 < NthStart(st, i)
                               THEN NthStart(st, i)
                               ELSE NthStart(st, i + 1) - 1>>
           /\ ranges[n] = <<NthStart(st, n), pdf.page_count>>
           /\ Len(pages_read) = n
           /\ \A i \in 1..n :
                 /\ SeqToSet(pages_read[i]) = {q - 1 : q \in PagesIn(ranges[i])}
                 /\ \A k \in 1..Len(pages_read[i]) :
                       pages_read[i][k] \in 0..(pdf.page_count - 1)

\* What a returned list must be for the argument as it was before the call
\* and as it is after it.
ResolvedFrom(before, after, result) ==
    /\ Len(result) = Len(before)
    /\ \A i \in 1..(Len(result) - 1) :
          result[i].page_start_1idx <= result[i + 1].page_start_1idx
    /\ \A p \in SeqToSet(PageStartsOf(before)) \cup SeqToSet(PageStartsOf(result)) :
          SelectSeq(WithoutText(result), LAMBDA x : x.page_start_1idx = p)
            = SelectSeq(WithoutText(before), LAMBDA x : x.page_start_1idx = p)
    /\ \A i \in 1..Len(result) : result[i].text # None
    /\ WithoutText(after) = WithoutText(before)

\* C9: extract_sections_text returns the sections of its argument, none
\* added or removed, in ascending page_start order, sections of equal
\* page_start in their order in the argument; every field but text is as it
\* was, and text is written.  The argument list keeps its order.
C9_FrameAndOrder ==
    [][(pc = "call" /\ pc' = "returned")
          => ResolvedFrom(toc_sections, toc_sections', spec_sections')]_vars

\* C9's case: a returned list of three sections whose argument was out of
\* page order and held two different sections of one page.
C9_Witness ==
    /\ pc = "returned"
    /\ Len(spec_sections) = 3
    /\ \E i, j \in 1..Len(toc_sections) :
          /\ i < j
          /\ toc_sections[i].page_start_1idx > toc_sections[j].page_start_1idx
    /\ \E i, j \in 1..Len(toc_sections) :
          /\ i < j
          /\ toc_sections[i].page_start_1idx = toc_sections[j].page_start_1idx
          /\ toc_sections[i].section_id # toc_sections[j].section_id

-----------------------------------------------------------------------------
(* Properties of the ToC strategies and of TOCReader.read *)

\* The dotted components of an id: "1.1.2" gives "1", "1", "2".
RECURSIVE Components(_)
Components(s) ==
    IF ~\E i \in 1..Len(s) : s[i] = "." THEN <<s>>
    ELSE LET d == CHOOSE i \in 1..Len(s) : s[i] = "." /\ \A j \in 1..(i - 1) : s[j] # "."
         IN <<SubSeq(s, 1, d - 1)>> \o Components(SubSeq(s, d + 1, Len(s)))

RECURSIVE JoinDots(_)
JoinDots(cs) ==
    IF Len(cs) = 1 THEN cs[1] ELSE cs[1] \o <<".">> \o JoinDots(Tail(cs))

\* The id without its last dotted component, for an id of two or more.
WithoutLastComponent(id) ==
    JoinDots(SubSeq(Components(id), 1, Len(Components(id)) - 1))

ParentAsDeclared(s) ==
    IF Len(Components(s.section_id)) > 1
    THEN s.parent_id = Some(WithoutLastComponent(s.section_id))
    ELSE s.parent_id = None

\* C3 (as claimed): every section TOCReader.read emits, from either
\* strategy, with a dotted id has the id without its last component as its
\* parent_id and (number of dots) + 1 as its level; a section with an
\* undotted id has no parent_id.
C3_Hierarchy ==
    pc = "returned" =>
        \A i \in 1..Len(toc_sections) :
            /\ ParentAsDeclared(toc_sections[i])
            /\ Len(Components(toc_sections[i].section_id)) > 1
                  => toc_sections[i].level = Len(Components(toc_sections[i].section_id))

\* C3 (amended): the parent_id is as claimed under both strategies; the
\* level is (number of dots) + 1 under the regex strategy, and under the
\* bookmark strategy it is the level the outline entry declares.
C3_HierarchyAmended ==
    pc = "returned" =>
        \A i \in 1..Len(toc_sections) :
            /\ ParentAsDeclared(toc_sections[i])
            /\ strategy = "regex"
                  => toc_sections[i].level = Len(Components(toc_sections[i].section_id))
            /\ strategy = "bookmark" => toc_sections[i].level = pdf.toc[i].level

\* C3's case: the bookmark strategy emitted section 1.1.2, with parent 1.1,
\* from an outline entry of level 1.
C3_Witness ==
    /\ pc = "returned"
    /\ strategy = "bookmark"
    /\ \E i \in 1..Len(toc_sections) :
          /\ toc_sections[i].section_id = <<"1", ".", "1", ".", "2">>
          /\ toc_sections[i].parent_id = Some(<<"1", ".", "1">>)
          /\ toc_sections[i].level = 1

\* C6 (as claimed): no two sections TOCReader.read returns have the same
\* section_id, whatever the outline or the ToC text declares.
C6_UniqueIds ==
    pc = "returned" =>
        \A i, j \in 1..Len(toc_sections) :
            i # j => toc_sections[i].section_id # toc_sections[j].section_id

-----------------------------------------------------------------------------
(* Properties of USBPDParser.run *)

FileNames == [i \in 1..Len(files) |-> files[i].name]

\* The ToC lines on the pages the regex strategy scanned.
ScannedLines == Concat([i \in 1..Len(toc_pages) |-> pdf.pages[toc_pages[i] + 1].lines])

ReadRaised == pc = "raised" /\ files = <<>>

\* C4: the bookmark strategy is tried first and its non-empty result is
\* returned as it is; the regex strategy's result is returned only when the
\* outline gave no section; when neither gives a section run stops without
\* resolving and without writing a file; otherwise the ToC file is written
\* before boundary resolution starts, and the spec file is written after
\* it, once resolution has returned.
C4_Fallback ==
    /\ (pc # "start" /\ pdf.toc # <<>>)
          => strategy = "bookmark" /\ Len(toc_sections) = Len(pdf.toc)
    /\ strategy = "regex"
          => /\ pdf.toc = <<>>
             /\ Len(toc_sections) = Len(ScannedLines)
             /\ toc_sections # <<>>
    /\ (pc # "start" /\ ~ReadRaised /\ pdf.toc = <<>>)
          => (pc = "aborted" <=> ScannedLines = <<>>)
    /\ pc = "aborted"
          => /\ toc_sections = <<>> /\ spec_sections = <<>>
             /\ ranges = <<>> /\ pages_read = <<>>
             /\ files = <<>> /\ report = None
    /\ pc \in {"start", "toc_read"} => files = <<>> /\ ranges = <<>> /\ pages_read = <<>>
    /\ pc = "toc_written"
          => FileNames = <<"usb_pd_toc.jsonl">> /\ ranges = <<>> /\ pages_read = <<>>
    /\ (ranges # <<>> \/ pages_read # <<>> \/ spec_sections # <<>>)
          => files # <<>> /\ files[1].name = "usb_pd_toc.jsonl"
    /\ pc = "resolved" => FileNames = <<"usb_pd_toc.jsonl">> /\ ranges # <<>>
    /\ (\E i \in 1..Len(files) : files[i].name = "usb_pd_spec.jsonl")
          => /\ SubSeq(FileNames, 1, 2) = <<"usb_pd_toc.jsonl", "usb_pd_spec.jsonl">>
             /\ ranges # <<>>
             /\ files[2].items = spec_sections
    /\ pc \in {"spec_written", "metadata_written", "declared", "observed", "done"}
          => Len(files) >= 2 /\ files[2].name = "usb_pd_spec.jsonl"

\* C4's case: a run that ended with the regex strategy's sections, the
\* outline being empty, and wrote the three files.
C4_Witness ==
    /\ pc = "done"
    /\ strategy = "regex"
    /\ pdf.toc = <<>>
    /\ Len(toc_sections) = 2
    /\ FileNames = <<"usb_pd_toc.jsonl", "usb_pd_spec.jsonl", "usb_pd_metadata.jsonl">>

\* C10: in a run that reaches the report, the resolved list holds the
\* records of the ToC list, text included, so the report says "Yes", both
\* mismatch listings are empty and the two section counts are equal.
C10_RunAlwaysMatches ==
    /\ pc \in {"observed", "done"}
          => /\ Len(spec_sections) = Len(toc_sections)
             /\ \A x \in SeqToSet(toc_sections) :
                   Cardinality({i \in 1..Len(toc_sections) : toc_sections[i] = x})
                     = Cardinality({i \in 1..Len(spec_sections) : spec_sections[i] = x})
             /\ \A i \in 1..Len(toc_sections) : toc_sections[i].text # None
    /\ pc = "done"
          => /\ report # None
             /\ report[1].summary.sections_match = "Yes"
             /\ report[1].in_toc_not_parsed = <<>>
             /\ report[1].parsed_not_in_toc = <<>>
             /\ report[1].summary.toc_total = report[1].summary.spec_total
    /\ error # "ValueError"

\* C10's case: a finished run whose resolver reordered the ToC sections.
C10_Witness ==
    /\ pc = "done"
    /\ Len(toc_sections) = 2
    /\ toc_sections # spec_sections
    /\ toc_sections[1].section_id # toc_sections[2].section_id

-----------------------------------------------------------------------------
(* Properties of ReportGenerator.generate *)

IsSortedListOf(l, S) ==
    /\ SeqToSet(l) = S
    /\ \A i \in 1..(Len(l) - 1) : StrLess(l[i], l[i + 1])

\* C5 (as claimed): for any two section lists generate writes a report,
\* mismatch or not, in which "Sections Match" is "Yes" exactly when the two
\* sets of ids are equal, "In ToC not Parsed" is the sorted difference
\* toc_ids minus spec_ids and "Parsed not in ToC" the sorted difference
\* spec_ids minus toc_ids.
C5_Reconciliation ==
    pc \in {"returned", "raised"} =>
        /\ error = ""
        /\ report # None
        /\ report[1].summary.sections_match = "Yes"
              <=> IdsOf(toc_sections) = IdsOf(spec_sections)
        /\ IsSortedListOf(report[1].in_toc_not_parsed,
                          IdsOf(toc_sections) \ IdsOf(spec_sections))
        /\ IsSortedListOf(report[1].parsed_not_in_toc,
                          IdsOf(spec_sections) \ IdsOf(toc_sections))

-----------------------------------------------------------------------------
(* Properties of the ToC page window *)

Headings == {i \in 0..(Min(ScanFirstN, pdf.page_count) - 1) : pdf.pages[i + 1].contents}

FirstHeading == CHOOSE i \in Headings : \A j \in Headings : i <= j

IsWindow(l, first, last) ==
    /\ Len(l) = last - first + 1
    /\ \A i \in 1..Len(l) : l[i] = first + i - 1

ValidAscending(l) ==
    /\ l # <<>>
    /\ \A i \in 1..Len(l) : l[i] \in 0..(pdf.page_count - 1)
    /\ \A i \in 1..(Len(l) - 1) : l[i] < l[i + 1]

\* C7 (as claimed): _guess_toc_pages returns a non-empty ascending list of
\* valid pages: the pages 0-9 when no heading is in the first 40 pages,
\* else the window from one page before the first heading (not below 0) to
\* 8 pages after it or the last page; a toc_pages_hint the caller supplies
\* is what read scans instead.
C7_PageWindow ==
    /\ pc = "guessed"
          => /\ ValidAscending(toc_pages)
             /\ Headings = {} => IsWindow(toc_pages, 0, 9)
             /\ Headings # {}
                   => IsWindow(toc_pages, Max(FirstHeading - 1, 0),
                               Min(FirstHeading + 8, pdf.page_count - 1))
    /\ (pc = "selected" /\ hint # None) => toc_pages = hint[1]

\* The guess for a document of at least one page: the first
\* min(10, page_count) pages without a heading, the window with one.
GuessedAsAmended(l) ==
    /\ ValidAscending(l)
    /\ Headings = {} => IsWindow(l, 0, Min(10, pdf.page_count) - 1)
    /\ Headings # {}
          => IsWindow(l, Max(FirstHeading - 1, 0),
                      Min(FirstHeading + 8, pdf.page_count - 1))

\* C7 (amended): for a document of at least one page, _guess_toc_pages
\* returns a non-empty ascending list of valid pages: the first
\* min(10, page_count) pages when no heading is in the first 40 pages, else
\* the window as claimed; read scans the toc_pages_hint when it is a
\* non-empty list, and the guessed pages when it is None or empty.
C7_PageWindowAmended ==
    /\ pc = "guessed" => GuessedAsAmended(toc_pages)
    /\ pc = "selected"
          => IF hint # None /\ hint[1] # <<>>
             THEN toc_pages = hint[1]
             ELSE GuessedAsAmended(toc_pages)

\* C7's case: a document of more than 40 pages whose only heading is
\* beyond the scanned pages, for which the first 10 pages were guessed.
C7_Witness ==
    /\ pc = "guessed"
    /\ pdf.page_count > 40
    /\ Headings = {}
    /\ \E i \in 1..pdf.page_count : pdf.pages[i].contents
    /\ Len(toc_pages) = 10

-----------------------------------------------------------------------------
(* Properties of the table inventories *)

SortedIgnoringCase(l) ==
    \A i \in 1..(Len(l) - 1) : ~StrLess(Lower(l[i + 1]), Lower(l[i]))

DistinctIgnoringCase(l) ==
    \A i, j \in 1..Len(l) : i # j => Lower(l[i]) # Lower(l[j])

\* C8 (as claimed): the declared and the observed inventory are sorted
\* ignoring case and hold no two strings that are equal ignoring case; the
\* declared inventory is empty when no page scanned has a "List of Tables"
\* heading.
C8_Inventories ==
    /\ pc = "declared"
          => /\ SortedIgnoringCase(toc_tables)
             /\ DistinctIgnoringCase(toc_tables)
             /\ (\A i \in 1..pdf.page_count : ~pdf.pages[i].lot) => toc_tables = <<>>
    /\ pc = "observed"
          => /\ SortedIgnoringCase(body_tables)
             /\ DistinctIgnoringCase(body_tables)

=============================================================================
